---- MODULE Spec2Model ----
(***************************************************************************)
(* Model of statistics.py: the similarity functions jaccard, euclid and    *)
(* cosine, the ranker compute_similarity and the metrics precision and     *)
(* recall.  The functions are pure; a behaviour is one call: Init draws    *)
(* the arguments of a call and the action of that function applies it.     *)
(*                                                                         *)
(* Numbers.  A score is a float.  It is modelled exactly (no rounding) as  *)
(* either NaN or the real number v with v*|v| = sq_num/sq_den, which       *)
(* covers every value the three formulas produce on 0/1 vectors: ratios    *)
(* p/q, roots r**0.5 and quotients p/(q**0.5).  Comparisons are those of   *)
(* IEEE floats: every comparison with NaN is false.                        *)
(***************************************************************************)
EXTENDS Integers, Sequences, FiniteSets, TLC

\* ---- bounds of the model
NumDocs == 3
Dim == 1
MaxCand == 3
MaxOut == 2
MaxRecallOut == 1
MaxThreshold == 1
MaxLongCand == 7

Docs == 0..(NumDocs - 1)
Vectors == [1..Dim -> {0, 1}]
\* the matrices whose columns are the documents of D
Matrices(D) == [D -> Vectors]

\* the documents a candidate list names
Range(s) == {s[k] : k \in 1..Len(s)}

RECURSIVE SeqsUpTo(_, _)
SeqsUpTo(S, n) ==
  IF n = 0 THEN {<<>>}
  ELSE LET shorter == SeqsUpTo(S, n - 1)
       IN shorter \cup {Append(s, e) : s \in {t \in shorter : Len(t) = n - 1}, e \in S}

\* ---- floats
NaN == [tag |-> "nan", sq_num |-> 0, sq_den |-> 1]

Real(sn, d) == [tag |-> "real", sq_num |-> sn, sq_den |-> d]

Abs(i) == IF i < 0 THEN -i ELSE i

\* the real p/q, q > 0
Frac(p, q) == Real(p * Abs(p), q * q)

\* s < t on floats
LT(s, t) ==
  /\ s.tag = "real"
  /\ t.tag = "real"
  /\ s.sq_num * t.sq_den < t.sq_num * s.sq_den

\* s >= t on floats
GE(s, t) ==
  /\ s.tag = "real"
  /\ t.tag = "real"
  /\ s.sq_num * t.sq_den >= t.sq_num * s.sq_den

\* s == t on floats
EQ(s, t) ==
  /\ s.tag = "real"
  /\ t.tag = "real"
  /\ s.sq_num * t.sq_den = t.sq_num * s.sq_den

\* p / q on numpy integers: 0/0 is nan (a RuntimeWarning, no exception);
\* q = 0 with p > 0 (inf) cannot happen where it is used, since p <= q there
TrueDiv(p, q) == IF q = 0 THEN NaN ELSE Frac(p, q)

\* r ** 0.5 on a numpy integer: nan for a negative r
Root(r) == IF r < 0 THEN NaN ELSE Real(r, 1)

\* p / (q ** 0.5), q >= 0: 0/0.0 is nan (p = 0 whenever q = 0 where it is used)
DivRoot(p, q) == IF q = 0 THEN NaN ELSE Real(p * Abs(p), q)

\* sum of f[1..n]
RECURSIVE SumTo(_, _)
SumTo(f, n) == IF n = 0 THEN 0 ELSE f[n] + SumTo(f, n - 1)

Sum(v) == SumTo(v, Len(v))

\* elementwise & and | of 0/1 vectors
And(u, v) == [k \in 1..Len(u) |-> IF u[k] = 1 /\ v[k] = 1 THEN 1 ELSE 0]

Or(u, v) == [k \in 1..Len(u) |-> IF u[k] = 1 \/ v[k] = 1 THEN 1 ELSE 0]

\* ---- the similarity functions
jaccard(x, a, incidence_matrix) ==
  LET xv == incidence_matrix[x]
      av == incidence_matrix[a]
  IN TrueDiv(Sum(And(xv, av)), Sum(Or(xv, av)))

euclid(x, a, incidence_matrix) ==
  LET xv == incidence_matrix[x]
      av == incidence_matrix[a]
  IN Root(Sum([k \in 1..Len(av) |-> av[k] * av[k] - xv[k] * xv[k]]))

cosine(x, a, incidence_matrix) ==
  LET xv == incidence_matrix[x]
      av == incidence_matrix[a]
      dot == Sum([k \in 1..Len(av) |-> av[k] * xv[k]])
      aa == Sum([k \in 1..Len(av) |-> av[k] * av[k]])
      xx == Sum([k \in 1..Len(xv) |-> xv[k] * xv[k]])
  IN DivRoot(dot, aa * xx)

\* ---- sorted(list, key=lambda x: x[1], reverse=...) for lists shorter than
\* 64 entries: CPython's list.sort reverses the list when reverse is set,
\* finds the initial run, extends it by binary insertion, and reverses again.
\* Keys are compared with < only.
Key(e) == e[2]

Reverse(s) == [k \in 1..Len(s) |-> s[Len(s) + 1 - k]]

\* last index of the run that starts at s[1], s[2]
RECURSIVE RunEnd(_, _, _)
RunEnd(s, k, descending) ==
  IF k = Len(s) THEN k
  ELSE IF LT(Key(s[k + 1]), Key(s[k])) = descending
       THEN RunEnd(s, k + 1, descending)
       ELSE k

\* the list with its initial run made ascending, and the length of that run
count_run(s) ==
  LET descending == LT(Key(s[2]), Key(s[1]))
      n == RunEnd(s, 2, descending)
  IN [n |-> n,
      list |-> IF descending
               THEN [k \in 1..Len(s) |-> IF k <= n THEN s[n + 1 - k] ELSE s[k]]
               ELSE s]

\* the insertion point of pivot in s[l..r-1]
RECURSIVE Bisect(_, _, _, _)
Bisect(s, pivot, l, r) ==
  LET p == l + ((r - l) \div 2)
      l2 == IF LT(Key(pivot), Key(s[p])) THEN l ELSE p + 1
      r2 == IF LT(Key(pivot), Key(s[p])) THEN p ELSE r
  IN IF l2 < r2 THEN Bisect(s, pivot, l2, r2) ELSE l2

\* s[1..start-1] is the run; insert s[start], s[start+1], ... into it
RECURSIVE binarysort(_, _)
binarysort(s, start) ==
  IF start > Len(s) THEN s
  ELSE LET pivot == s[start]
           l == Bisect(s, pivot, 1, start)
           moved == [k \in 1..Len(s) |->
                       IF k < l \/ k > start THEN s[k]
                       ELSE IF k = l THEN pivot
                       ELSE s[k - 1]]
       IN binarysort(moved, start + 1)

list_sort(s) ==
  IF Len(s) < 2 THEN s
  ELSE LET run == count_run(s) IN binarysort(run.list, run.n + 1)

sorted(list, reverse) ==
  IF reverse THEN Reverse(list_sort(Reverse(list))) ELSE list_sort(list)

\* ---- results of a call
\* a returned value with its Python type, or a raised exception
Return(t, v) == [kind |-> "return", type |-> t, val |-> v]

Raise(e) == [kind |-> "raise", type |-> "exception", val |-> e]

\* ---- compute_similarity
KnownSimTypes == {"jaccard", "euclid", "cosine"}

SimTypes == KnownSimTypes \cup {"hamming"}

\* sim_fun after the if/elif chain; it stays unbound for any other sim_type
sim_fun(sim_type, x, i, incidence_matrix) ==
  CASE sim_type = "jaccard" -> jaccard(x, i, incidence_matrix)
    [] sim_type = "euclid" -> euclid(x, i, incidence_matrix)
    [] sim_type = "cosine" -> cosine(x, i, incidence_matrix)

\* variant: the self-pair test is missing
SkipCandidate_never(i, x) == FALSE

\* the loop's test: the candidate i is skipped
SkipCandidate(i, x) == i = x

\* variant: the loop ends at the first occurrence of x (break for continue)
RECURSIVE RankedList_break(_, _, _, _, _)
RankedList_break(x, similar_docs, incidence_matrix, sim_type, n) ==
  IF n = 0 THEN <<>>
  ELSE LET i == similar_docs[n]
           before == RankedList_break(x, similar_docs, incidence_matrix, sim_type, n - 1)
       IN IF \E k \in 1..n : SkipCandidate(similar_docs[k], x) THEN before
          ELSE Append(before, <<i, sim_fun(sim_type, x, i, incidence_matrix)>>)

\* ranked_list after the loop over similar_docs[1..n]
RECURSIVE RankedList(_, _, _, _, _)
RankedList(x, similar_docs, incidence_matrix, sim_type, n) ==
  IF n = 0 THEN <<>>
  ELSE LET i == similar_docs[n]
           before == RankedList(x, similar_docs, incidence_matrix, sim_type, n - 1)
       IN IF SkipCandidate(i, x) THEN before
          ELSE Append(before, <<i, sim_fun(sim_type, x, i, incidence_matrix)>>)

\* the order of the final sort: reverse=False for euclid, reverse=True otherwise
SortReverse(sim_type) == sim_type # "euclid"

compute_similarity(x, similar_docs, incidence_matrix, sim_type) ==
  IF /\ sim_type \notin KnownSimTypes
     /\ \E k \in 1..Len(similar_docs) : ~SkipCandidate(similar_docs[k], x)
  THEN Raise("UnboundLocalError")
  ELSE LET ranked_list ==
             IF sim_type \in KnownSimTypes
             THEN RankedList(x, similar_docs, incidence_matrix, sim_type, Len(similar_docs))
             ELSE <<>>
       IN Return("list", sorted(ranked_list, SortReverse(sim_type)))

\* ---- precision and recall
\* variant: the comparison is turned around (i <= threshold)
Relevant_below(score, threshold) == GE(threshold, score)

\* the test of the comprehensions: the pair's score is at least the threshold
Relevant(score, threshold) == GE(score, threshold)

\* len([i for f, i in output if i >= threshold])
CountRelevant(output, threshold) ==
  Cardinality({k \in 1..Len(output) : Relevant(output[k][2], threshold)})

\* the quotient p/q of two lengths, q > 0
Ratio(p, q) == [num |-> p, den |-> q]

precision(threshold, output) ==
  IF Len(output) = 0 THEN Raise("ZeroDivisionError")
  ELSE Return("float", Ratio(CountRelevant(output, threshold), Len(output)))

\* variant: the denominator counts only scores above the threshold
CountDen_strict(docs, threshold, x) ==
  Cardinality({k \in 1..Len(docs) :
                 LT(threshold, docs[k][2]) /\ docs[k][1] # x})

\* len([i for f, i in docs if i >= threshold and f != x])
CountDen(docs, threshold, x) ==
  Cardinality({k \in 1..Len(docs) :
                 Relevant(docs[k][2], threshold) /\ docs[k][1] # x})

\* variant: the test for an empty denominator is missing
recall_noguard(threshold, x, size, output, incidence_matrix, sim_type) ==
  LET all == [k \in 1..size |-> k - 1]
      docs == compute_similarity(x, all, incidence_matrix, sim_type)
  IN IF docs.kind = "raise" THEN docs
     ELSE LET req == CountRelevant(output, threshold)
              den == CountDen(docs.val, threshold, x)
          IN IF den = 0 THEN Raise("ZeroDivisionError")
             ELSE Return("float", Ratio(req, den))

recall(threshold, x, size, output, incidence_matrix, sim_type) ==
  LET all == [k \in 1..size |-> k - 1]
      docs == compute_similarity(x, all, incidence_matrix, sim_type)
  IN IF docs.kind = "raise" THEN docs
     ELSE LET req == CountRelevant(output, threshold)
              den == CountDen(docs.val, threshold, x)
          IN IF den = 0 THEN Return("str", "not defined")
             ELSE Return("float", Ratio(req, den))

\* ---- the calls
VARIABLES pc, op, incidence_matrix, x, a, similar_docs, sim_type, threshold,
          size, output, ret

vars == <<pc, op, incidence_matrix, x, a, similar_docs, sim_type, threshold,
          size, output, ret>>

\* thresholds -1/2, 0, 1/2, ..., MaxThreshold/2
Thresholds == {Frac(p, 2) : p \in -1..MaxThreshold}

\* scores of the pairs of a caller-supplied output
ScoreVals == {NaN, Frac(0, 1), Frac(1, 2), Frac(1, 1)}
OutputPairs == {<<f, i>> : f \in Docs, i \in ScoreVals}
Outputs == SeqsUpTo(OutputPairs, MaxOut)

\* outputs that are no part of a ranking for x: pairs that name x itself
ForeignOutputs(q) == SeqsUpTo({<<q, i>> : i \in ScoreVals}, MaxRecallOut)

\* the sub-collections of a ranked list, in the list's order
RECURSIVE SubSeqs(_)
SubSeqs(s) ==
  IF s = <<>> THEN {<<>>}
  ELSE LET rest == SubSeqs(Tail(s))
       IN rest \cup {<<Head(s)>> \o r : r \in rest}

NoMatrix == [d \in {} |-> <<>>]
NoRet == [kind |-> "none", type |-> "none", val |-> 0]

InitJaccard ==
  /\ op = "jaccard"
  /\ x \in Docs
  /\ a \in Docs
  /\ incidence_matrix \in Matrices({x, a})
  /\ similar_docs = <<>>
  /\ sim_type = "jaccard"
  /\ threshold = Frac(0, 1)
  /\ size = 0
  /\ output = <<>>

InitComputeSimilarity ==
  /\ op = "compute_similarity"
  /\ x \in Docs
  /\ a = 0
  /\ similar_docs \in SeqsUpTo(Docs, MaxCand)
  /\ incidence_matrix \in Matrices(Range(similar_docs) \cup {x})
  /\ sim_type \in SimTypes
  /\ threshold = Frac(0, 1)
  /\ size = 0
  /\ output = <<>>

InitPrecision ==
  /\ op = "precision"
  /\ incidence_matrix = NoMatrix
  /\ x = 0
  /\ a = 0
  /\ similar_docs = <<>>
  /\ sim_type = "jaccard"
  /\ threshold \in Thresholds
  /\ size = 0
  /\ output \in Outputs

InitRecall ==
  /\ op = "recall"
  /\ x \in Docs
  /\ a = 0
  /\ similar_docs = <<>>
  /\ sim_type \in SimTypes
  /\ threshold \in Thresholds
  /\ size \in 0..NumDocs
  /\ incidence_matrix \in Matrices((0..(size - 1)) \cup {x})
  /\ LET docs == compute_similarity(x, [k \in 1..size |-> k - 1],
                                    incidence_matrix, sim_type)
     IN output \in ForeignOutputs(x) \cup
                   (IF docs.kind = "return" THEN SubSeqs(docs.val) ELSE {})

\* a call of a similarity function or of the ranker
Init ==
  /\ pc = "call"
  /\ ret = NoRet
  /\ \/ InitJaccard
     \/ InitComputeSimilarity

\* a call of a retrieval metric
InitMetrics ==
  /\ pc = "call"
  /\ ret = NoRet
  /\ \/ InitPrecision
     \/ InitRecall

CallJaccard ==
  /\ pc = "call"
  /\ op = "jaccard"
  /\ ret' = Return("float", jaccard(x, a, incidence_matrix))
  /\ pc' = "done"
  /\ UNCHANGED <<op, incidence_matrix, x, a, similar_docs, sim_type, threshold,
                 size, output>>

CallComputeSimilarity ==
  /\ pc = "call"
  /\ op = "compute_similarity"
  /\ ret' = compute_similarity(x, similar_docs, incidence_matrix, sim_type)
  /\ pc' = "done"
  /\ UNCHANGED <<op, incidence_matrix, x, a, similar_docs, sim_type, threshold,
                 size, output>>

CallPrecision ==
  /\ pc = "call"
  /\ op = "precision"
  /\ ret' = precision(threshold, output)
  /\ pc' = "done"
  /\ UNCHANGED <<op, incidence_matrix, x, a, similar_docs, sim_type, threshold,
                 size, output>>

CallRecall ==
  /\ pc = "call"
  /\ op = "recall"
  /\ ret' = recall(threshold, x, size, output, incidence_matrix, sim_type)
  /\ pc' = "done"
  /\ UNCHANGED <<op, incidence_matrix, x, a, similar_docs, sim_type, threshold,
                 size, output>>

Next ==
  \/ CallJaccard
  \/ CallComputeSimilarity

Spec == Init /\ [][Next]_vars

NextMetrics ==
  \/ CallPrecision
  \/ CallRecall

SpecMetrics == InitMetrics /\ [][NextMetrics]_vars

\* ---- long candidate lists over one corpus: the query document 0, an empty
\* document, two documents with the same vector, and one that contains the query
LongCorpus == <<<<0, 0>>, <<0, 1>>, <<0, 1>>, <<1, 1>>>>
LongDocs == 0..Len(LongCorpus)
LongMatrix == [d \in LongDocs |-> IF d = 0 THEN <<1, 0>> ELSE LongCorpus[d]]

InitLong ==
  /\ pc = "call"
  /\ ret = NoRet
  /\ op = "compute_similarity"
  /\ incidence_matrix = LongMatrix
  /\ x = 0
  /\ a = 0
  /\ similar_docs \in SeqsUpTo(LongDocs, MaxLongCand)
  /\ sim_type \in KnownSimTypes
  /\ threshold = Frac(0, 1)
  /\ size = 0
  /\ output = <<>>

NextLong == CallComputeSimilarity

SpecLong == InitLong /\ [][NextLong]_vars

\* ---- properties
Done(f) == pc = "done" /\ op = f

\* number of positions of the candidate list that hold i
Occurrences(i, docs) == Cardinality({k \in 1..Len(docs) : docs[k] = i})

Ids(list) == {list[k][1] : k \in 1..Len(list)}

\* C1: for a selector among jaccard, euclid and cosine, compute_similarity
\* returns a list, and no pair of that list has the query id x as its
\* document id, however often x occurs among the candidates.
C1_QueryExcluded ==
  (Done("compute_similarity") /\ sim_type \in KnownSimTypes) =>
    /\ ret.kind = "return"
    /\ x \notin Ids(ret.val)

C1_Witness ==
  /\ Done("compute_similarity")
  /\ sim_type \in KnownSimTypes
  /\ Occurrences(x, similar_docs) >= 2
  /\ ret.kind = "return"
  /\ Len(ret.val) >= 1

\* C2: the returned list is sorted by score: every adjacent pair is
\* non-increasing for jaccard and cosine, non-decreasing for euclid.
C2_Sorted ==
  (Done("compute_similarity") /\ sim_type \in KnownSimTypes) =>
    /\ ret.kind = "return"
    /\ \A k \in 1..(Len(ret.val) - 1) :
         IF sim_type = "euclid"
         THEN GE(ret.val[k + 1][2], ret.val[k][2])
         ELSE GE(ret.val[k][2], ret.val[k + 1][2])

\* C3 as claimed: the returned list has one entry fewer than the candidate
\* list if x is among the candidates, and as many entries otherwise.
C3_LengthMinusOne ==
  (Done("compute_similarity") /\ sim_type \in KnownSimTypes) =>
    /\ ret.kind = "return"
    /\ Len(ret.val) = Len(similar_docs)
                        - (IF Occurrences(x, similar_docs) > 0 THEN 1 ELSE 0)

\* C3 amended: the returned list has as many entries as the candidate list
\* has positions that do not hold x.
C3_LengthMinusOccurrences ==
  (Done("compute_similarity") /\ sim_type \in KnownSimTypes) =>
    /\ ret.kind = "return"
    /\ Len(ret.val) = Len(similar_docs) - Occurrences(x, similar_docs)

C3_Witness ==
  /\ Done("compute_similarity")
  /\ sim_type \in KnownSimTypes
  /\ Occurrences(x, similar_docs) = 2
  /\ ret.kind = "return"
  /\ Len(ret.val) = Len(similar_docs) - 2
  /\ Len(ret.val) >= 1

\* C4: with a selector outside jaccard, euclid and cosine, compute_similarity
\* fails with an invalid-argument error for every candidate list, and never
\* returns a ranked list.
InvalidArgumentKinds == {"InvalidArgument", "ValueError"}

C4_UnknownSelectorFails ==
  (Done("compute_similarity") /\ sim_type \notin KnownSimTypes) =>
    /\ ret.kind = "raise"
    /\ ret.val \in InvalidArgumentKinds

\* the documents of 0..size-1 other than x whose score against x is at
\* least the threshold
RelevantIds ==
  {i \in (0..(size - 1)) \ {x} :
     GE(sim_fun(sim_type, x, i, incidence_matrix), threshold)}

\* number of pairs of output with a score of at least the threshold
OutputHits == Cardinality({k \in 1..Len(output) : GE(output[k][2], threshold)})

\* C5: for a selector among jaccard, euclid and cosine, recall returns the
\* string "not defined" (and no number) exactly when no document of
\* 0..size-1 other than x scores at least the threshold, whatever output
\* holds; otherwise it returns the quotient of the number of output pairs
\* with such a score by the number of those documents.
C5_RecallUndefinedOrQuotient ==
  (Done("recall") /\ sim_type \in KnownSimTypes) =>
    /\ ret.kind = "return"
    /\ IF RelevantIds = {}
       THEN ret.type = "str" /\ ret.val = "not defined"
       ELSE ret.type = "float"
            /\ ret.val = Ratio(OutputHits, Cardinality(RelevantIds))

C5_Witness ==
  /\ Done("recall")
  /\ sim_type \in KnownSimTypes
  /\ size >= 2
  /\ RelevantIds = {}
  /\ OutputHits >= 1
  /\ ret.type = "str"

\* C6: precision of an empty output fails with the dedicated
\* EmptyInputError, not with a raw division-by-zero fault; for a non-empty
\* output it returns the fraction of pairs whose score is at least the
\* threshold.
C6_PrecisionEmptyInput ==
  Done("precision") =>
    IF Len(output) = 0
    THEN ret.kind = "raise" /\ ret.val = "EmptyInputError"
    ELSE ret.kind = "return" /\ ret.val = Ratio(OutputHits, Len(output))

\* p1/q1 >= p2/q2 for positive denominators
RatioGE(r1, r2) == r1.num * r2.den >= r2.num * r1.den

\* C7: for a fixed non-empty output, precision at a threshold is at least
\* the precision at every larger threshold.
C7_PrecisionMonotone ==
  (Done("precision") /\ Len(output) > 0) =>
    \A t2 \in Thresholds :
      GE(t2, threshold) =>
        /\ ret.kind = "return"
        /\ precision(t2, output).kind = "return"
        /\ RatioGE(ret.val, precision(t2, output).val)

C7_Witness ==
  /\ Done("precision")
  /\ Len(output) >= 2
  /\ ret.kind = "return"
  /\ ret.val.num > 0
  /\ \E t2 \in Thresholds :
       /\ GE(t2, threshold)
       /\ precision(t2, output).val.num > 0
       /\ ~RatioGE(precision(t2, output).val, ret.val)

\* coordinates set in both, and in either, of the vectors of x and a
SetInBoth ==
  {k \in 1..Dim : incidence_matrix[x][k] = 1 /\ incidence_matrix[a][k] = 1}

SetInEither ==
  {k \in 1..Dim : incidence_matrix[x][k] = 1 \/ incidence_matrix[a][k] = 1}

\* C8: for x # a with 0/1 vectors, jaccard returns a number of [0,1], the
\* number of coordinates set in both vectors divided by the number set in
\* either, also when both vectors are all zero.
C8_JaccardInUnitInterval ==
  (Done("jaccard") /\ x # a) =>
    /\ ret.val.tag = "real"
    /\ GE(ret.val, Frac(0, 1))
    /\ GE(Frac(1, 1), ret.val)
    /\ ret.val.sq_num * Cardinality(SetInEither) * Cardinality(SetInEither)
         = Cardinality(SetInBoth) * Cardinality(SetInBoth) * ret.val.sq_den

\* the pairs of s whose score equals v, in the order of s
SameScore(s, v) == SelectSeq(s, LAMBDA e : EQ(e[2], v))

\* the candidates other than x with their scores, in the candidates' order
CandidatePairs ==
  LET kept == SelectSeq(similar_docs, LAMBDA i : i # x)
  IN [k \in 1..Len(kept) |->
        <<kept[k], sim_fun(sim_type, x, kept[k], incidence_matrix)>>]

\* C9: the entries of the returned list that have the same score are in
\* the order in which their ids occur among the candidates, for the
\* descending order of jaccard and cosine and the ascending order of euclid.
C9_TiesInCandidateOrder ==
  (Done("compute_similarity") /\ sim_type \in KnownSimTypes) =>
    /\ ret.kind = "return"
    /\ \A k \in 1..Len(ret.val) :
         SameScore(ret.val, ret.val[k][2])
           = SameScore(CandidatePairs, ret.val[k][2])

\* output takes each pair of the ranking of x against 0..size-1 at most once
OutputFromRanking ==
  /\ \A k \in 1..Len(output) :
       /\ output[k][1] \in (0..(size - 1)) \ {x}
       /\ output[k][2] = sim_fun(sim_type, x, output[k][1], incidence_matrix)
  /\ \A j, k \in 1..Len(output) : output[j][1] = output[k][1] => j = k

\* C10: when output is a sub-collection of the ranking of x against the
\* whole corpus and recall returns a number, the number is in [0,1]: the
\* numerator counts no pair that the denominator does not count.
C10_RecallInUnitInterval ==
  (/\ Done("recall")
   /\ sim_type \in KnownSimTypes
   /\ OutputFromRanking
   /\ RelevantIds # {}) =>
    /\ ret.type = "float"
    /\ 0 <= ret.val.num
    /\ ret.val.num <= ret.val.den
    /\ ret.val.den > 0

C10_Witness ==
  /\ Done("recall")
  /\ sim_type \in KnownSimTypes
  /\ OutputFromRanking
  /\ Len(output) >= 1
  /\ Cardinality(RelevantIds) > OutputHits
  /\ ret.type = "float"
  /\ ret.val.num >= 1
  /\ ret.val.den > ret.val.num

====
